---------------------------- MODULE Spec2Model ----------------------------
(***************************************************************************)
(* ProblemSetter: ingestion of a PDF into the exercises table              *)
(* (process_document in streamlit-dashboard.py with the helpers of         *)
(* db_builder.py): page selection, extraction, table-of-contents           *)
(* enrichment, incremental persistence, and the caller's report; then the  *)
(* grading of a solution into the attempts table (extract_solution and     *)
(* the solutions page) and the reads of the dashboard (get_exercises,      *)
(* get_attempts).                                                          *)
(*                                                                         *)
(* A string is a sequence of one-character strings, so that join, split    *)
(* and LIKE are computed character by character.  Python's None is the     *)
(* empty sequence <<>> where a value is optional (result), and an int n    *)
(* is then <<n>>.                                                          *)
(***************************************************************************)
EXTENDS Integers, Sequences, FiniteSets, TLC

(***************************************************************************)
(* Bounds of the model.                                                    *)
(***************************************************************************)
MaxPages    == 2   \* pages of a document in the ingestion specification
MaxLines    == 2   \* lines of one page that hold the exercise marker
MaxNumber   == 2   \* exercise numbers the extractor reports: 1..MaxNumber
MaxBatch    == 2   \* records in one extractor response
MaxRuns     == 2   \* ingest runs in one behaviour
MaxHeadings == 1   \* entries of a table of contents
MaxTocPages == 3   \* pages of the document of the enrichment specification
MaxTocLen   == 3   \* entries of its table of contents
MaxAttempts == 3   \* rows of the attempts table

(***************************************************************************)
(* Strings.                                                                *)
(***************************************************************************)
RECURSIVE Join(_, _)
\* sep.join(parts): str.join
Join(parts, sep) ==
    IF parts = <<>> THEN <<>>
    ELSE IF Len(parts) = 1 THEN parts[1]
    ELSE parts[1] \o sep \o Join(Tail(parts), sep)

RECURSIVE SplitFrom(_, _, _)
\* s.split(c), the field being read held in cur
SplitFrom(s, c, cur) ==
    IF s = <<>> THEN <<cur>>
    ELSE IF Head(s) = c THEN <<cur>> \o SplitFrom(Tail(s), c, <<>>)
    ELSE SplitFrom(Tail(s), c, Append(cur, Head(s)))

\* s.split(c): str.split with a separator ("" splits to [""])
Split(s, c) == SplitFrom(s, c, <<>>)

\* SQLite folds the ASCII letters for LIKE
Lower(c) == IF c = "A" THEN "a" ELSE IF c = "B" THEN "b" ELSE c

RECURSIVE Like(_, _)
\* s LIKE pat in SQLite: % is any run of characters, _ any one character,
\* letters compare without case
Like(pat, s) ==
    IF pat = <<>> THEN s = <<>>
    ELSE IF Head(pat) = "%"
         THEN \E k \in 0..Len(s) : Like(Tail(pat), SubSeq(s, k + 1, Len(s)))
    ELSE IF s = <<>> THEN FALSE
    ELSE /\ (Head(pat) = "_" \/ Lower(Head(pat)) = Lower(Head(s)))
         /\ Like(Tail(pat), Tail(s))

\* '.'.join(os.path.basename(file_path).split('.')[:-1])
Reference(file_name) ==
    LET parts == Split(file_name, ".")
    IN  Join(SubSeq(parts, 1, Len(parts) - 1), <<".">>)

RECURSIVE SeqToSet(_)
SeqToSet(s) == IF s = <<>> THEN {} ELSE {Head(s)} \cup SeqToSet(Tail(s))

RECURSIVE Repeat(_, _)
\* n copies of x
Repeat(x, n) == IF n = 0 THEN <<>> ELSE <<x>> \o Repeat(x, n - 1)

\* the sequences over S of length at most n
SeqsUpTo(S, n) == UNION {[1..k -> S] : k \in 0..n}

(***************************************************************************)
(* Page selection.                                                         *)
(***************************************************************************)
RECURSIVE GrepPages(_, _)
\* pdfgrep -n prints one line "<page>:<text>" per matching line of the
\* document, page after page; get_exercise_pages keeps the page of each.
\* markers[p] is the number of lines of page p that hold the marker.
GrepPages(markers, p) ==
    IF p > Len(markers) THEN <<>>
    ELSE Repeat(p, markers[p]) \o GrepPages(markers, p + 1)

get_exercise_pages(file) == GrepPages(file.markers, 1)

\* pages = get_exercise_pages(file_path); if not pages: all the pages
CandidatePages(file) ==
    LET pages == get_exercise_pages(file)
    IN  IF pages = <<>> THEN [p \in 1..file.npages |-> p] ELSE pages

\* mutant: WHERE page NOT IN (pages)
ExistingPages_NotIn(table, pages, reference) ==
    {table[i].page : i \in {j \in DOMAIN table :
        /\ table[j].page \notin SeqToSet(pages)
        /\ Like(reference, table[j].reference)}}

\* SELECT page FROM exercises WHERE page IN (pages) AND reference LIKE
\* '<reference>', then .page.unique()
ExistingPages(table, pages, reference) ==
    {table[i].page : i \in {j \in DOMAIN table :
        /\ table[j].page \in SeqToSet(pages)
        /\ Like(reference, table[j].reference)}}

\* mutant: the stored pages are not taken out
FilterPages_KeepAll(pages, existing) == pages

\* list(filter(lambda x: x not in existing_pages, pages))
FilterPages(pages, existing) ==
    SelectSeq(pages, LAMBDA p : p \notin existing)

(***************************************************************************)
(* Table of contents and enrichment (enrich_with_toc).                     *)
(***************************************************************************)
\* pd.NA in the chapter column
NA == <<"<NA>">>

\* toc.get_headings(toc_soup, lvl): the entries of one level, in the order
\* of the table of contents
get_headings(toc, lvl) == SelectSeq(toc, LAMBDA h : h.level = lvl)

\* for lvl in [0, 1]: headings += toc.get_headings(toc_soup, lvl)
CollectHeadings(toc) == get_headings(toc, 0) \o get_headings(toc, 1)

RECURSIVE InsertByPage(_, _)
\* h put after the last entry of the page-sorted hs whose page is <= h.page
InsertByPage(hs, h) ==
    IF hs = <<>> THEN <<h>>
    ELSE IF hs[Len(hs)].page <= h.page THEN Append(hs, h)
    ELSE Append(InsertByPage(SubSeq(hs, 1, Len(hs) - 1), h), hs[Len(hs)])

RECURSIVE SortByPage(_)
\* headings.sort_values(by='page'): for the short frames of the model
\* numpy's sort is an insertion sort, which keeps equal pages in order
SortByPage(hs) ==
    IF hs = <<>> THEN <<>>
    ELSE InsertByPage(SortByPage(SubSeq(hs, 1, Len(hs) - 1)), hs[Len(hs)])

RECURSIVE FFill(_, _)
\* chapter = title on level 0, pd.NA elsewhere, then chapter.ffill():
\* last is the chapter carried forward
FFill(hs, last) ==
    IF hs = <<>> THEN <<>>
    ELSE LET h  == Head(hs)
             ch == IF h.level = 0 THEN h.title ELSE last
         IN  <<[title |-> h.title, page |-> h.page, level |-> h.level,
                chapter |-> ch]>> \o FFill(Tail(hs), ch)

\* the headings frame after lines 208-214
HeadingFrame(toc) == FFill(SortByPage(CollectHeadings(toc)), NA)

\* headings.page[headings.page < page]: the positions kept by the mask
Preceding(frame, page) == {i \in DOMAIN frame : frame[i].page < page}

\* .idxmax(): the first position of the greatest value
IdxMax(frame, idxs) ==
    CHOOSE i \in idxs :
        /\ \A j \in idxs : frame[j].page <= frame[i].page
        /\ \A j \in idxs : frame[j].page = frame[i].page => i <= j

\* headings.loc[headings.page[headings.page < e.page].idxmax()]
Section(frame, page) == frame[IdxMax(frame, Preceding(frame, page))]

\* headings.chapter == section.chapter: a comparison with pd.NA is False
\* everywhere
SameChapter(h, chapter) == chapter # NA /\ h.chapter = chapter

RECURSIVE Titles(_)
Titles(hs) == IF hs = <<>> THEN <<>> ELSE <<Head(hs).title>> \o Titles(Tail(hs))

\* ','.join(headings[headings.chapter == section.chapter].title.values)
ChapterContent(frame, chapter) ==
    Join(Titles(SelectSeq(frame, LAMBDA h : SameChapter(h, chapter))), <<",">>)

\* the body of the loop over the rows: chapter and tags of one row
EnrichRow(frame, e) ==
    LET section == Section(frame, e.page)
    IN  [e EXCEPT !.chapter = section.chapter,
                  !.tags = e.tags \o <<",">> \o ChapterContent(frame, section.chapter)]

\* sort_values(by='page') raises KeyError on the empty frame (it has no
\* columns); idxmax raises ValueError on an empty selection
EnrichRaises(toc, rows) ==
    \/ CollectHeadings(toc) = <<>>
    \/ \E i \in DOMAIN rows : Preceding(HeadingFrame(toc), rows[i].page) = {}

\* enrich_with_toc(file_path, exercises) when it does not raise
enrich_with_toc(toc, rows) ==
    [i \in DOMAIN rows |-> EnrichRow(HeadingFrame(toc), rows[i])]

(***************************************************************************)
(* Extraction and persistence.                                             *)
(***************************************************************************)
\* a response of the service: its text is JSON, a list of records, or is not
ParseFail == [json |-> FALSE, records |-> <<>>]

\* json.loads(text) ... except: print, return []
extract_exercises(response) ==
    IF response.json THEN response.records ELSE <<>>

\* the loop over the records (lines 317-321) and line 326: chapter, page,
\* reference and created_on stamped, the tag list joined with ','
Stamp(records, p, reference, now) ==
    [i \in DOMAIN records |->
        [reference  |-> reference,
         chapter    |-> <<>>,
         page       |-> p,
         number     |-> records[i].number,
         text       |-> records[i].text,
         has_figure |-> records[i].has_figure,
         tags       |-> Join(records[i].tags, <<",">>),
         created_on |-> now]]

\* sqlite3 binds None, int, float, str and bytes, and the adapted numpy
\* types; pd.NA is none of them, executemany raises and the connection's
\* context manager rolls the batch back
SaveRaises(rows) == \E i \in DOMAIN rows : rows[i].chapter = NA

\* mutant: the batch is not committed
save_exercises_NoCommit(table, rows) == table

\* mutant: a row is inserted only if no stored row has its key
save_exercises_IfAbsent(table, rows) ==
    table \o SelectSeq(rows, LAMBDA e : \A i \in DOMAIN table :
                  ~(/\ table[i].reference = e.reference
                    /\ table[i].page = e.page
                    /\ table[i].number = e.number))

\* INSERT INTO exercises ... executemany; con.commit()
save_exercises(table, rows) == table \o rows

(***************************************************************************)
(* The inputs: files, tables of contents, extractor responses.             *)
(***************************************************************************)
HeadingsUpTo(titles, maxpage, maxlevel) ==
    [title : titles, page : 1..maxpage, level : 0..maxlevel]

\* the uploaded file names: the second reference is a LIKE pattern that
\* matches the first
FileNames == {<<"a", ".", "p">>, <<"_", ".", "p">>}

\* the documents of the ingestion specification: any marker lines, a short
\* table of contents (a level-2 entry is one enrich_with_toc never reads)
IngestDocuments ==
    UNION {[npages  : {n},
            markers : [1..n -> 0..MaxLines],
            toc     : SeqsUpTo(HeadingsUpTo({<<"A">>}, MaxPages, 2), MaxHeadings)] :
           n \in 1..MaxPages}

\* the documents of the enrichment specification: no marker, so that every
\* page is a candidate, and any table of contents
TocDocuments ==
    [npages  : {MaxTocPages},
     markers : {[p \in 1..MaxTocPages |-> 0]},
     toc     : SeqsUpTo(HeadingsUpTo({<<"A">>, <<"B">>}, MaxTocPages, 1), MaxTocLen)]

\* the tag lists the extractor proposes, by exercise text
TagLists == << << <<"t">> >>, <<>>, << <<"t">>, <<"u">> >> >>

\* the records of a response: the text identifies the exercise on its page
RawRecords(numbers, texts) ==
    {[number |-> n, text |-> i, has_figure |-> (i = 1), tags |-> TagLists[i]] :
        n \in numbers, i \in texts}

Responses(records, maxbatch) ==
    {ParseFail} \cup
    {[json |-> TRUE, records |-> b] : b \in SeqsUpTo(records, maxbatch)}

(***************************************************************************)
(* State.                                                                  *)
(***************************************************************************)
VARIABLES
    document,   \* the PDF that is uploaded: npages, markers, toc
    exercises,  \* the exercises table, rows in insertion order
    run,        \* per dashboard session: the state of process_document
    nruns,      \* runs started so far; the clock behind created_on
    attempts,   \* the attempts table, rows in insertion order
    dash        \* the dashboard: the exercise selected, what was last shown

vars == <<document, exercises, run, nruns, attempts, dash>>

Sessions == {1, 2}
None     == <<>>

Idle ==
    [pc |-> "idle", name |-> <<>>, reference |-> <<>>, pages |-> <<>>,
     existing |-> {}, topr |-> <<>>, idx |-> 0, num_exercises |-> 0,
     result |-> None, status |-> "", err |-> "", shown |-> "",
     base |-> 0, log |-> <<>>, prev |-> <<>>]

\* the dashboard before anything is selected or shown: the exercise of the
\* solutions page, the outcome of the last grading and the attempts table's
\* length before it, the last filtered listing and the last history shown
Blank ==
    [selected |-> <<>>, graded |-> "", verdict |-> <<>>, abase |-> 0,
     query |-> <<>>, listing |-> <<>>, history |-> <<>>]

\* what a run leaves for the next one to be compared with
Past(r) == [name |-> r.name, topr |-> r.topr, idx |-> r.idx, log |-> r.log,
            status |-> r.status, err |-> r.err]

TypeOK ==
    /\ exercises \in Seq([reference : Seq(STRING), chapter : Seq(STRING),
                          page : Nat, number : Nat, text : Nat,
                          has_figure : BOOLEAN, tags : Seq(STRING),
                          created_on : Nat])
    /\ nruns \in 0..MaxRuns
    /\ Len(attempts) \in 0..MaxAttempts
    /\ \A i \in DOMAIN attempts :
          attempts[i].is_solution_correct \in {<<>>, <<0>>, <<1>>}
    /\ dash.graded \in {"", "success", "error"}
    /\ \A s \in Sessions : run[s].pc \in {"idle", "loop", "returned", "reported"}

InitWith(documents) ==
    /\ document \in documents
    /\ exercises = <<>>
    /\ run = [s \in Sessions |-> Idle]
    /\ nruns = 0
    /\ attempts = <<>>
    /\ dash = Blank

Init == InitWith(IngestDocuments)

(***************************************************************************)
(* process_document.                                                       *)
(***************************************************************************)
\* lines 269-302: the reference, the candidate pages, the pages already
\* stored, the pages to process; return None when there is none
StartRun(s, name) ==
    LET reference == Reference(name)
        pages     == CandidatePages(document)
        existing  == ExistingPages(exercises, pages, reference)
        topr      == FilterPages(pages, existing)
        r         == [Idle EXCEPT !.name = name, !.reference = reference,
                           !.pages = pages, !.existing = existing,
                           !.topr = topr, !.base = Len(exercises),
                           !.prev = IF run[s].pc = "idle" THEN <<>>
                                    ELSE <<Past(run[s])>>]
    IN  /\ run[s].pc \in {"idle", "reported"}
        /\ nruns < MaxRuns
        /\ nruns' = nruns + 1
        /\ run' = [run EXCEPT ![s] =
                     IF topr = <<>>
                     THEN [r EXCEPT !.pc = "returned", !.status = "no_new",
                                    !.result = None]
                     ELSE [r EXCEPT !.pc = "loop"]]
        /\ UNCHANGED <<document, exercises, attempts, dash>>

\* the except clause of process_document: the error is shown, None returned
Failed(r, err) ==
    [r EXCEPT !.pc = "returned", !.status = "error", !.err = err,
              !.result = None]

\* one turn of the loop over the pages (lines 312-331)
ProcessPage(s, response) ==
    LET r       == run[s]
        p       == r.topr[r.idx + 1]
        records == extract_exercises(response)
        ex_df   == Stamp(records, p, r.reference, nruns)
        toc     == document.toc
        rows    == enrich_with_toc(toc, ex_df)
    IN  /\ r.pc = "loop"
        /\ r.idx < Len(r.topr)
        /\ IF ex_df = <<>>
           THEN \* if ex_df.empty: continue
                /\ run' = [run EXCEPT ![s].idx = r.idx + 1,
                              ![s].log = Append(r.log,
                                  IF response = ParseFail THEN "fail" ELSE "empty")]
                /\ UNCHANGED exercises
           ELSE IF EnrichRaises(toc, ex_df)
           THEN /\ run' = [run EXCEPT ![s] = Failed(r, "enrich")]
                /\ UNCHANGED exercises
           ELSE IF SaveRaises(rows)
           THEN /\ run' = [run EXCEPT ![s] = Failed(r, "save")]
                /\ UNCHANGED exercises
           ELSE /\ exercises' = save_exercises(exercises, rows)
                /\ run' = [run EXCEPT ![s].idx = r.idx + 1,
                              ![s].num_exercises = r.num_exercises + Len(rows),
                              ![s].log = Append(r.log, "stored")]
        /\ UNCHANGED <<document, nruns, attempts, dash>>

\* the service call of extract_exercises (line 103) raises: the run ends in
\* the except clause with the pages before this one committed
ServiceFailure(s) ==
    /\ run[s].pc = "loop"
    /\ run[s].idx < Len(run[s].topr)
    /\ run' = [run EXCEPT ![s] = Failed(run[s], "service")]
    /\ UNCHANGED <<document, exercises, nruns, attempts, dash>>

\* lines 333-339: the loop is over, num_exercises is returned
Finish(s) ==
    /\ run[s].pc = "loop"
    /\ run[s].idx = Len(run[s].topr)
    /\ run' = [run EXCEPT ![s].pc = "returned", ![s].status = "complete",
                  ![s].result = <<run[s].num_exercises>>]
    /\ UNCHANGED <<document, exercises, nruns, attempts, dash>>

\* len(x) of main's success message: an int has no len(), TypeError
LenRaises(result) == result \in Seq(Nat) /\ Len(result) = 1

\* main, lines 425-432: what the caller shows for the returned value
MainShows(result) ==
    IF result = None THEN "nothing"          \* if result is not None
    ELSE IF LenRaises(result) THEN "error"   \* except Exception: st.error
    ELSE "success"                           \* st.success(... len(result) ...)

Report(s) ==
    /\ run[s].pc = "returned"
    /\ run' = [run EXCEPT ![s].pc = "reported",
                  ![s].shown = MainShows(run[s].result)]
    /\ UNCHANGED <<document, exercises, nruns, attempts, dash>>

\* the sessions that ingest: one, so that runs never overlap
Ingesting == {1}

IngestResponses == Responses(RawRecords(1..MaxNumber, {1}), MaxBatch)

Next ==
    \E s \in Ingesting :
        \/ \E name \in FileNames : StartRun(s, name)
        \/ \E response \in IngestResponses : ProcessPage(s, response)
        \/ ServiceFailure(s)
        \/ Finish(s)
        \/ Report(s)

Spec == Init /\ [][Next]_vars

(***************************************************************************)
(* The enrichment specification: one run over a document without markers   *)
(* and with any table of contents, responses of one record with any of     *)
(* the tag lists.                                                          *)
(***************************************************************************)
InitToc == InitWith(TocDocuments)

TocResponses == Responses(RawRecords({1}, DOMAIN TagLists), 1)

NextToc ==
    \E s \in Ingesting :
        \/ nruns = 0 /\ StartRun(s, <<"a", ".", "p">>)
        \/ \E response \in TocResponses : ProcessPage(s, response)
        \/ ServiceFailure(s)
        \/ Finish(s)
        \/ Report(s)

SpecToc == InitToc /\ [][NextToc]_vars

(***************************************************************************)
(* Grading (extract_solution and the solutions page).                      *)
(***************************************************************************)
VerdictKeys == {"solution_text", "is_solution_correct", "feedback"}

\* json.loads(text) raises when the text is not JSON; solution['...'] raises
\* TypeError when the JSON value is a list and KeyError when the object
\* lacks the key
ExtractSolutionRaises(response) ==
    \/ ~response.json
    \/ ~response.object
    \/ ~(VerdictKeys \subseteq response.keys)

\* return solution['solution_text'], solution['is_solution_correct'],
\* solution['feedback']: the values as json.loads gave them (null is None,
\* true is 1 once bound by sqlite3)
extract_solution(response) ==
    <<response.solution_text, response.is_solution_correct, response.feedback>>

\* the characters of a number below 100 written with two digits (%m, %d)
TwoDigits(n) ==
    LET digit == <<"0", "1", "2", "3", "4", "5", "6", "7", "8", "9">>
    IN  <<digit[(n \div 10) + 1], digit[(n % 10) + 1]>>

\* datetime.now().strftime('%Y-%m-%d') for a day <<y, m, d>> of the years
\* 2000..2099
strftime(day) ==
    <<"2", "0">> \o TwoDigits(day[1] % 100) \o <<"-">> \o TwoDigits(day[2])
        \o <<"-">> \o TwoDigits(day[3])

\* mutant: the attempt replaces the table
insert_attempt_Replace(table, exercise, verdict, current_date) ==
    <<[reference |-> exercise.reference, page |-> exercise.page,
       number |-> exercise.number, solution |-> verdict[1],
       is_solution_correct |-> verdict[2], solution_feedback |-> verdict[3],
       attempted_on |-> current_date]>>

\* INSERT INTO attempts (...) VALUES (?, ?, ?, ?, ?, ?, ?); con.commit()
insert_attempt(table, exercise, verdict, current_date) ==
    Append(table,
        [reference |-> exercise.reference, page |-> exercise.page,
         number |-> exercise.number, solution |-> verdict[1],
         is_solution_correct |-> verdict[2], solution_feedback |-> verdict[3],
         attempted_on |-> current_date])

(***************************************************************************)
(* Reads (get_attempts, get_exercises).                                    *)
(***************************************************************************)
\* the place of a character in the ASCII order of the characters of a date
CharCode(c) ==
    CASE c = "-" -> 0 [] c = "0" -> 1 [] c = "1" -> 2 [] c = "2" -> 3
      [] c = "3" -> 4 [] c = "4" -> 5 [] c = "5" -> 6 [] c = "6" -> 7
      [] c = "7" -> 8 [] c = "8" -> 9 [] c = "9" -> 10

RECURSIVE TextLess(_, _)
\* a < b for two TEXT values of SQLite (memcmp, the shorter first)
TextLess(a, b) ==
    IF b = <<>> THEN FALSE
    ELSE IF a = <<>> THEN TRUE
    ELSE IF Head(a) = Head(b) THEN TextLess(Tail(a), Tail(b))
    ELSE CharCode(Head(a)) < CharCode(Head(b))

RECURSIVE InsertByDateDesc(_, _)
\* a put after the last row of the sorted rows whose date is not below a's
InsertByDateDesc(rows, a) ==
    IF rows = <<>> THEN <<a>>
    ELSE IF ~TextLess(rows[Len(rows)].attempted_on, a.attempted_on)
         THEN Append(rows, a)
    ELSE Append(InsertByDateDesc(SubSeq(rows, 1, Len(rows) - 1), a),
                rows[Len(rows)])

RECURSIVE OrderByDateDesc(_)
\* ORDER BY attempted_on DESC
OrderByDateDesc(rows) ==
    IF rows = <<>> THEN <<>>
    ELSE InsertByDateDesc(OrderByDateDesc(SubSeq(rows, 1, Len(rows) - 1)),
                          rows[Len(rows)])

\* WHERE reference = ? AND page = ? AND number = ?
HasKey(row, reference, page, number) ==
    row.reference = reference /\ row.page = page /\ row.number = number

\* mutant: the rows come back in the order of the table
get_attempts_Unordered(table, reference, page, number) ==
    SelectSeq(table, LAMBDA a : HasKey(a, reference, page, number))

\* SELECT * FROM attempts WHERE reference = ? AND page = ? AND number = ?
\* ORDER BY attempted_on DESC
get_attempts(table, reference, page, number) ==
    OrderByDateDesc(SelectSeq(table, LAMBDA a : HasKey(a, reference, page, number)))

\* get_all_tags: the tags of the store, every tags field split on ','
\* (the tags of the model have no blank to strip), as a set
get_all_tags(etable) ==
    UNION {SeqToSet(Split(etable[i].tags, ",")) :
              i \in {j \in DOMAIN etable : etable[j].tags # <<>>}}

\* the key of a row
KeyOf(row) == [reference |-> row.reference, page |-> row.page, number |-> row.number]

\* FROM exercises e LEFT JOIN attempts a ON the three key columns: the
\* attempts joined to the exercise rows of one group
Joined(atable, k) ==
    {i \in DOMAIN atable : HasKey(atable[i], k.reference, k.page, k.number)}

\* COUNT(DISTINCT a.attempted_on)
AttemptCount(atable, k) ==
    Cardinality({atable[i].attempted_on : i \in Joined(atable, k)})

\* MAX(a.is_solution_correct): NULL (None) when no joined value is not NULL
IsSolved(atable, k) ==
    LET vals == {atable[i].is_solution_correct[1] :
                    i \in {j \in Joined(atable, k) :
                              atable[j].is_solution_correct # <<>>}}
    IN  IF vals = {} THEN <<>>
        ELSE <<CHOOSE v \in vals : \A w \in vals : w <= v>>

\* (e.tags LIKE '%tag%' OR ...), no condition for an empty list
TagCondition(e, tags) ==
    tags = <<>> \/ \E i \in DOMAIN tags : Like(<<"%">> \o tags[i] \o <<"%">>, e.tags)

\* (e.reference = ? OR ...), no condition for an empty list
ReferenceCondition(e, references) ==
    references = <<>> \/ \E i \in DOMAIN references : e.reference = references[i]

\* the conditions on the aggregates, one per status named, all of them
StatusCondition(atable, k, attempt_status) ==
    LET named == SeqToSet(attempt_status)
    IN  /\ "not_attempted" \in named => AttemptCount(atable, k) = 0
        /\ "attempted" \in named => AttemptCount(atable, k) > 0
        /\ "correct" \in named => IsSolved(atable, k) = <<1>>
        /\ "incorrect" \in named => IsSolved(atable, k) = <<0>>

\* get_exercises: one row per group of GROUP BY e.reference, e.page,
\* e.number that passes HAVING, with the two aggregates; the rows as a set.
\* The columns of e outside the key are those of the group's exercise row
\* (a key has one row in the store of this specification).
get_exercises(etable, atable, tags, references, attempt_status) ==
    {[key           |-> KeyOf(etable[i]),
      tags          |-> etable[i].tags,
      attempt_count |-> AttemptCount(atable, KeyOf(etable[i])),
      is_solved     |-> IsSolved(atable, KeyOf(etable[i]))] :
        i \in {j \in DOMAIN etable :
                  /\ TagCondition(etable[j], tags)
                  /\ ReferenceCondition(etable[j], references)
                  /\ StatusCondition(atable, KeyOf(etable[j]), attempt_status)}}

(***************************************************************************)
(* The dashboard over the store: an exercise is selected, a solution is    *)
(* graded, the main page lists the exercises under its filters.            *)
(***************************************************************************)
\* the script of a session runs one handler at a time: the pages are used
\* when process_document is not running
AtRest == \A s \in Sessions : run[s].pc \in {"idle", "reported"}

\* the keys of the stored exercises
ExerciseKeys == {KeyOf(exercises[i]) : i \in DOMAIN exercises}

\* the solutions page of an exercise that is stored (lines 99-114), down to
\* the history of its attempts (line 240)
Select(k) ==
    /\ AtRest
    /\ k \in ExerciseKeys
    /\ dash' = [Blank EXCEPT !.selected = <<k>>,
                    !.history = get_attempts(attempts, k.reference, k.page, k.number)]
    /\ UNCHANGED <<document, exercises, run, nruns, attempts>>

\* "Process Solution" (lines 183-236) and the history below it (line 240):
\* the verdict is asked for, the attempt inserted and committed; an
\* exception on the way is shown as an error
Grade(response, today) ==
    LET k       == dash.selected[1]
        verdict == extract_solution(response)
        table   == IF ExtractSolutionRaises(response) THEN attempts
                   ELSE insert_attempt(attempts, k, verdict, strftime(today))
    IN  /\ AtRest
        /\ dash.selected # <<>>
        /\ Len(attempts) < MaxAttempts
        /\ attempts' = table
        /\ dash' = [dash EXCEPT
                       !.graded  = IF ExtractSolutionRaises(response)
                                   THEN "error" ELSE "success",
                       !.verdict = IF ExtractSolutionRaises(response)
                                   THEN <<>> ELSE verdict,
                       !.abase   = Len(attempts),
                       !.history = get_attempts(table, k.reference, k.page, k.number)]
        /\ UNCHANGED <<document, exercises, run, nruns>>

\* the main page (lines 364-438): the tags and the references are selected
\* among those of the store, then the exercises under the filters are listed
Query(tags, references, attempt_status) ==
    /\ AtRest
    /\ SeqToSet(tags) \subseteq get_all_tags(exercises)
    /\ SeqToSet(references) \subseteq {exercises[i].reference : i \in DOMAIN exercises}
    /\ dash' = [Blank EXCEPT
                   !.query   = <<[tags |-> tags, references |-> references,
                                  attempt_status |-> attempt_status]>>,
                   !.listing = <<get_exercises(exercises, attempts, tags,
                                               references, attempt_status)>>]
    /\ UNCHANGED <<document, exercises, run, nruns, attempts>>

\* the document of the store specification: three pages, a chapter heading
\* on the first and on the second, the marker on one line of the second
\* and of the third
StoreDocuments ==
    {[npages  |-> 3,
      markers |-> [p \in 1..3 |-> IF p = 1 THEN 0 ELSE 1],
      toc     |-> <<[title |-> <<"A">>, page |-> 1, level |-> 0],
                    [title |-> <<"a">>, page |-> 2, level |-> 0]>>]}

InitStore == InitWith(StoreDocuments)

StoreResponses == Responses(RawRecords({1}, {1, 3}), 1)

\* the answers of the service to a grading request: a text that is not
\* JSON, a JSON list, an object that lacks keys, an object with the three
\* keys whose values are strings and a boolean, or null
GradeResponses ==
    {[json |-> FALSE, object |-> FALSE, keys |-> {}, solution_text |-> <<>>,
      is_solution_correct |-> <<>>, feedback |-> <<>>],
     [json |-> TRUE, object |-> FALSE, keys |-> {}, solution_text |-> <<>>,
      is_solution_correct |-> <<>>, feedback |-> <<>>]}
    \cup
    {[json |-> TRUE, object |-> TRUE, keys |-> ks, solution_text |-> <<>>,
      is_solution_correct |-> <<>>, feedback |-> <<>>] :
        ks \in (SUBSET VerdictKeys) \ {VerdictKeys}}
    \cup
    {[json |-> TRUE, object |-> TRUE, keys |-> VerdictKeys,
      solution_text |-> v[1], is_solution_correct |-> v[2],
      feedback |-> v[3]] :
        v \in {<< <<"s">>, <<1>>, <<"f">> >>, << <<"s">>, <<0>>, <<"f">> >>,
               << <<"s">>, <<1>>, <<>> >>}}

\* the days the clock may show when an attempt is saved
Days == {<<2024, 1, 1>>, <<2024, 2, 1>>, <<2024, 3, 1>>}

\* the day of the store specification
StoreDays == {<<2024, 1, 1>>}

\* the filters of the main page that are exercised
QueryTags   == {<<>>, << <<"a">> >>, << <<"u">> >>, << <<"u">>, <<"A">> >>}
QueryStatus == {<<"correct">>, <<"incorrect">>}

NextStore ==
    \/ \E s \in Ingesting :
          \/ StartRun(s, <<"a", ".", "p">>)
          \/ \E response \in StoreResponses : ProcessPage(s, response)
          \/ ServiceFailure(s)
          \/ Finish(s)
          \/ Report(s)
    \/ \E k \in ExerciseKeys : Select(k)
    \/ \E response \in GradeResponses, today \in StoreDays :
          Grade(response, today)
    \/ \E tags \in QueryTags, status \in QueryStatus :
          Query(tags, <<>>, status)

SpecStore == InitStore /\ [][NextStore]_vars

(***************************************************************************)
(* The history specification: one ingest run, then solutions graded on     *)
(* any of three days, in any order of the days.                            *)
(***************************************************************************)
NextHistory ==
    \/ \E s \in Ingesting :
          \/ nruns = 0 /\ StartRun(s, <<"a", ".", "p">>)
          \/ \E response \in StoreResponses : ProcessPage(s, response)
          \/ ServiceFailure(s)
          \/ Finish(s)
          \/ Report(s)
    \/ \E k \in ExerciseKeys : Select(k)
    \/ \E response \in GradeResponses, today \in Days : Grade(response, today)

SpecHistory == InitStore /\ [][NextHistory]_vars

(***************************************************************************)
(* The race specification: two sessions of the dashboard ingest the same   *)
(* document, one run each, their steps interleaved in any way.             *)
(***************************************************************************)
NextRace ==
    \E s \in Sessions :
        \/ run[s].pc = "idle" /\ StartRun(s, <<"a", ".", "p">>)
        \/ \E response \in StoreResponses : ProcessPage(s, response)
        \/ ServiceFailure(s)
        \/ Finish(s)
        \/ Report(s)

SpecRace == InitStore /\ [][NextRace]_vars

(***************************************************************************)
(* Vocabulary of the properties.                                           *)
(***************************************************************************)
Started(r)  == r.pc # "idle"
Ended(r)    == r.pc \in {"returned", "reported"}

\* the table when the run started, and the rows stored since
RowsAtStart(r) == SubSeq(exercises, 1, r.base)
Added(r)       == SubSeq(exercises, r.base + 1, Len(exercises))

HasRow(rows, reference, p) ==
    \E i \in DOMAIN rows : rows[i].reference = reference /\ rows[i].page = p

\* the run before this one was on the same document
SameAsPrev(r) == r.prev # <<>> /\ r.prev[1].name = r.name

\* the pages a run called the extractor on, and those it stored rows for
Extracted(past) == {past.topr[k] : k \in 1..past.idx}
StoredBy(past)  ==
    {past.topr[k] : k \in {j \in DOMAIN past.log : past.log[j] = "stored"}}
Unstored(past)  ==
    {past.topr[k] : k \in {j \in DOMAIN past.log : past.log[j] # "stored"}}

NonDecreasing(q) == \A i, j \in DOMAIN q : i < j => q[i] <= q[j]
Ascending(q)     == \A i, j \in DOMAIN q : i < j => q[i] < q[j]

(***************************************************************************)
(* C1.                                                                     *)
(***************************************************************************)
\* C1 as stated: when ingest has run to completion twice in a row on the
\* same document, the second run has stored no row: the table is as long
\* after it as before it, whatever the extractor answered in the first run.
C1_SecondRunStoresNothing ==
    \A s \in Sessions :
        LET r == run[s]
        IN  (/\ Ended(r) /\ r.status \in {"complete", "no_new"}
             /\ SameAsPrev(r)
             /\ r.prev[1].status \in {"complete", "no_new"})
            => Len(exercises) = r.base

\* C1 amended: when ingest runs twice in a row on the same document and the
\* first run ran to completion, the second run stores no row for a page that
\* had a row under the document's reference when it started; when every
\* candidate page had one, it stores nothing and the count of stored
\* exercises is that after the first run.
C1_SecondRunStoresOnlyUnstoredPages ==
    \A s \in Sessions :
        LET r == run[s]
        IN  (/\ Started(r)
             /\ SameAsPrev(r)
             /\ r.prev[1].status \in {"complete", "no_new"})
            => /\ \A i \in DOMAIN Added(r) :
                    ~HasRow(RowsAtStart(r), r.reference, Added(r)[i].page)
               /\ (\A p \in SeqToSet(r.pages) : HasRow(RowsAtStart(r), r.reference, p))
                    => Len(exercises) = r.base

\* C1 witness: a second run on the same document has ended with nothing
\* stored, after a first run that completed and stored rows.
C1_Witness ==
    \E s \in Sessions :
        LET r == run[s]
        IN  /\ Ended(r) /\ SameAsPrev(r)
            /\ r.prev[1].status = "complete"
            /\ StoredBy(r.prev[1]) # {}
            /\ Len(exercises) = r.base /\ r.base > 0

(***************************************************************************)
(* C2.                                                                     *)
(***************************************************************************)
\* C2: no two rows of the exercises table share (reference, page, number).
C2_CompositeKeyUnique ==
    \A i, j \in DOMAIN exercises :
        (/\ exercises[i].reference = exercises[j].reference
         /\ exercises[i].page = exercises[j].page
         /\ exercises[i].number = exercises[j].number) => i = j

(***************************************************************************)
(* C3.                                                                     *)
(***************************************************************************)
\* C3: in a run that no service failure ended, a page p whose response did
\* not parse stops nothing: the run has extracted every page to process and
\* ended without error, no row of page p is stored under the reference, and
\* p is a page the next run on the document would process.
C3_ParseFailureIsolated ==
    \A s \in Sessions :
        LET r == run[s]
        IN  (Ended(r) /\ r.err # "service") =>
            \A k \in DOMAIN r.log : r.log[k] = "fail" =>
                /\ r.idx = Len(r.topr) /\ r.status = "complete"
                /\ ~HasRow(exercises, r.reference, r.topr[k])
                /\ r.topr[k] \in SeqToSet(FilterPages(r.pages,
                        ExistingPages(exercises, r.pages, r.reference)))

(***************************************************************************)
(* C4.                                                                     *)
(***************************************************************************)
\* C4 as stated: a page the previous run on the same document called the
\* extractor on is not a page this run calls the extractor on.
C4_NeverReprocessed ==
    \A s \in Sessions :
        LET r == run[s]
        IN  SameAsPrev(r) => Extracted(r) \cap Extracted(r.prev[1]) = {}

\* C4 amended: a page that has a row under the document's reference when a
\* run starts is not a page the run processes; a page the previous run on
\* the same document extracted and stored no row for is processed again.
C4_StoredPageNotReprocessed ==
    \A s \in Sessions :
        LET r == run[s]
        IN  Started(r) =>
            /\ \A p \in SeqToSet(r.topr) : ~HasRow(RowsAtStart(r), r.reference, p)
            /\ SameAsPrev(r) =>
                 \A p \in Unstored(r.prev[1]) \ StoredBy(r.prev[1]) :
                    p \in SeqToSet(r.topr)

\* C4 witness: the second run on a document has extracted a page that gave
\* nothing in the first run, and skips a page the first run stored.
C4_Witness ==
    \E s \in Sessions :
        LET r == run[s]
        IN  /\ SameAsPrev(r) /\ r.idx > 0
            /\ r.topr[1] \in Unstored(r.prev[1])
            /\ \E p \in StoredBy(r.prev[1]) : p \notin SeqToSet(r.topr)

LastMax(frame, idxs) ==
    CHOOSE i \in idxs :
        /\ \A j \in idxs : frame[j].page <= frame[i].page
        /\ \A j \in idxs : frame[j].page = frame[i].page => j <= i

\* C6: the chapter of a stored exercise of page P is the chapter field of
\* the heading of the greatest page below P, the last of them in the sorted
\* heading sequence when several share that page.
C6_ChapterOfNearestHeading ==
    \A i \in DOMAIN exercises :
        LET e     == exercises[i]
            frame == HeadingFrame(document.toc)
            idxs  == Preceding(frame, e.page)
        IN  idxs # {} => e.chapter = frame[LastMax(frame, idxs)].chapter

(***************************************************************************)
(* C7.                                                                     *)
(***************************************************************************)
\* C7: enrichment never ends a run, and an exercise of a page that no
\* heading precedes is stored with an empty chapter and the proposed tags
\* alone.
C7_NoHeadingNoFailure ==
    \A s \in Sessions :
        LET r     == run[s]
            frame == HeadingFrame(document.toc)
        IN  Started(r) =>
            /\ r.err # "enrich"
            /\ \A k \in 1..r.idx :
                  (r.log[k] # "stored" \/ Preceding(frame, r.topr[k]) # {})
                  \/ \E i \in DOMAIN Added(r) :
                        /\ Added(r)[i].page = r.topr[k]
                        /\ Added(r)[i].chapter = <<>>
                        /\ Added(r)[i].tags = Join(TagLists[Added(r)[i].text], <<",">>)

(***************************************************************************)
(* C8.                                                                     *)
(***************************************************************************)
\* C8: the tag list of a stored exercise, read back from the tags column,
\* is the proposed tags in their order followed by the titles of the
\* headings of the exercise's chapter in heading order.
C8_TagsAreProposedThenTitles ==
    \A i \in DOMAIN exercises :
        LET e     == exercises[i]
            frame == HeadingFrame(document.toc)
        IN  Split(e.tags, ",") =
                TagLists[e.text] \o
                Titles(SelectSeq(frame, LAMBDA h : h.chapter = e.chapter))

(***************************************************************************)
(* C9.                                                                     *)
(***************************************************************************)
\* the pages that hold the marker
MarkerPages == {p \in 1..document.npages : document.markers[p] > 0}

\* C9: the candidate pages of a run are ascending without a repeat; they
\* are the pages that hold the marker, and all the pages 1..N when no page
\* holds it.
C9_CandidatePages ==
    \A s \in Sessions :
        LET r == run[s]
        IN  Started(r) =>
            /\ Ascending(r.pages)
            /\ MarkerPages # {} => SeqToSet(r.pages) = MarkerPages
            /\ MarkerPages = {} => r.pages = [p \in 1..document.npages |-> p]

(***************************************************************************)
(* C10.                                                                    *)
(***************************************************************************)
\* C10: a run that ended without an error returned the number of rows it
\* stored, 0 when it stored none, and the caller's message reports it.
C10_ReturnsAndReportsCount ==
    \A s \in Sessions :
        LET r == run[s]
        IN  (Ended(r) /\ r.status # "error") =>
            /\ r.result = <<Len(Added(r))>>
            /\ r.pc = "reported" => r.shown = "success"

(***************************************************************************)
(* C11.                                                                    *)
(***************************************************************************)
\* a verdict whose three values are there: a transcription, a boolean and
\* a feedback, none of them null
Populated(verdict) ==
    verdict[1] # <<>> /\ verdict[2] \in {<<0>>, <<1>>} /\ verdict[3] # <<>>

\* C11: a grading that ended in an error has left the attempts table as it
\* was; a grading that succeeded has returned a fully populated verdict and
\* appended exactly one row, with the key of the selected exercise and the
\* values of the verdict; no row of the table is partial.
C11_GradingAllOrNothing ==
    /\ dash.graded = "error" => Len(attempts) = dash.abase
    /\ dash.graded = "success" =>
          /\ Len(attempts) = dash.abase + 1
          /\ KeyOf(attempts[Len(attempts)]) = dash.selected[1]
          /\ Populated(dash.verdict)
    /\ \A i \in DOMAIN attempts :
          Populated(<<attempts[i].solution, attempts[i].is_solution_correct,
                      attempts[i].solution_feedback>>)

(***************************************************************************)
(* C12.                                                                    *)
(***************************************************************************)
\* sub occurs in s, character for character
Contains(s, sub) ==
    \E i \in 1..(Len(s) - Len(sub) + 1) : SubSeq(s, i, i + Len(sub) - 1) = sub

\* C12: for every store and every non-empty list of tags of the store,
\* get_exercises with the status 'correct' returns exactly the keys of the exercises whose tags
\* field contains one of the tags as a substring and that have an attempt
\* whose is_solution_correct is true.
C12_FilterComposition ==
    \A tags \in QueryTags \ {<<>>} :
        SeqToSet(tags) \subseteq get_all_tags(exercises) =>
        {row.key : row \in get_exercises(exercises, attempts, tags, <<>>,
                                         <<"correct">>)}
        = {KeyOf(exercises[i]) : i \in {j \in DOMAIN exercises :
              /\ \E t \in DOMAIN tags : Contains(exercises[j].tags, tags[t])
              /\ \E a \in DOMAIN attempts :
                    /\ KeyOf(attempts[a]) = KeyOf(exercises[j])
                    /\ attempts[a].is_solution_correct = <<1>>}}

(***************************************************************************)
(* C13.                                                                    *)
(***************************************************************************)
\* the day a stored date stands for
ParseDay(text) ==
    LET v(i) == CharCode(text[i]) - 1
    IN  <<1000 * v(1) + 100 * v(2) + 10 * v(3) + v(4),
          10 * v(6) + v(7), 10 * v(9) + v(10)>>

\* day a is before day b
Before(a, b) ==
    \/ a[1] < b[1]
    \/ a[1] = b[1] /\ a[2] < b[2]
    \/ a[1] = b[1] /\ a[2] = b[2] /\ a[3] < b[3]

\* C13: for every exercise key and every attempts table, get_attempts
\* returns the attempts of that key and no other row, each as often as it
\* is stored, and no attempt comes before one of a later day; the history
\* the solutions page shows is that list.
C13_HistoryDescending ==
    /\ \A k \in ExerciseKeys :
          LET h == get_attempts(attempts, k.reference, k.page, k.number)
          IN  /\ \A i \in DOMAIN h : KeyOf(h[i]) = k
              /\ \A i \in DOMAIN attempts :
                    KeyOf(attempts[i]) = k =>
                        Cardinality({j \in DOMAIN h : h[j] = attempts[i]})
                        = Cardinality({j \in DOMAIN attempts :
                                          attempts[j] = attempts[i]})
              /\ Len(h) = Cardinality(Joined(attempts, k))
              /\ \A i, j \in DOMAIN h :
                    i < j => ~Before(ParseDay(h[i].attempted_on),
                                     ParseDay(h[j].attempted_on))
    /\ dash.selected # <<>> =>
          dash.history = get_attempts(attempts, dash.selected[1].reference,
                             dash.selected[1].page, dash.selected[1].number)

\* C13 witness: three attempts of the selected exercise were stored on
\* 2024-01-01, 2024-03-01 and 2024-02-01 in that order, and the history
\* shows 03-01, 02-01, 01-01.
C13_Witness ==
    /\ dash.selected # <<>>
    /\ Len(attempts) = 3
    /\ \A i \in DOMAIN attempts : KeyOf(attempts[i]) = dash.selected[1]
    /\ [i \in 1..3 |-> attempts[i].attempted_on]
          = <<strftime(<<2024, 1, 1>>), strftime(<<2024, 3, 1>>),
              strftime(<<2024, 2, 1>>)>>
    /\ Len(dash.history) = 3
    /\ [i \in 1..3 |-> ParseDay(dash.history[i].attempted_on)]
          = << <<2024, 3, 1>>, <<2024, 2, 1>>, <<2024, 1, 1>> >>

(***************************************************************************)
(* C14.                                                                    *)
(***************************************************************************)
\* C14: nothing keeps two interleaved runs on one document apart: the
\* pages a run processes are the candidates without a row when it started,
\* whatever the other run has stored since; and every batch is inserted
\* whole, so that the table holds as many rows as the two runs counted and
\* a row of every page a run stored.
C14_NothingExcludesDuplicates ==
    /\ \A s \in Sessions :
          LET r == run[s]
          IN  Started(r) =>
              /\ r.topr = FilterPages(r.pages,
                     ExistingPages(RowsAtStart(r), r.pages, r.reference))
              /\ \A k \in DOMAIN r.log :
                    r.log[k] = "stored" => HasRow(exercises, r.reference, r.topr[k])
    /\ Len(exercises) = run[1].num_exercises + run[2].num_exercises

\* C14 witness: both runs read the stored pages of the same reference while
\* the table was empty, both have processed and stored the same page, and
\* the table holds two rows with one (reference, page, number).
C14_Witness ==
    /\ run[1].pc = "loop" /\ run[2].pc = "loop"
    /\ run[1].reference = run[2].reference
    /\ run[1].base = 0 /\ run[2].base = 0
    /\ \E p \in StoredBy(run[1]) \cap StoredBy(run[2]) :
          \E i, j \in DOMAIN exercises :
              /\ i < j
              /\ exercises[i].page = p /\ exercises[j].page = p
              /\ exercises[i].reference = run[1].reference
              /\ exercises[j].reference = run[1].reference
              /\ exercises[i].number = exercises[j].number

(***************************************************************************)
(* C15.                                                                    *)
(***************************************************************************)
\* p is the beginning of q
IsPrefix(p, q) == Len(p) <= Len(q) /\ SubSeq(q, 1, Len(p)) = p

\* C15: in every step, every stored exercise row and every stored attempt
\* row stays where it is with its fields unchanged; a step of an ingest run
\* leaves the attempts table unchanged, a step of the dashboard (a grading,
\* a selection, a filtered listing) leaves the exercises table unchanged,
\* and only a grading adds an attempt.
C15_AppendOnly ==
    [][/\ IsPrefix(exercises, exercises')
       /\ IsPrefix(attempts, attempts')
       /\ run' # run => attempts' = attempts
       /\ dash' # dash => exercises' = exercises
       /\ attempts' # attempts =>
             /\ Len(attempts') = Len(attempts) + 1
             /\ dash'.graded = "success"
             /\ run' = run]_vars

\* C15 witness: with an attempt stored and a filtered listing shown, a
\* second ingest run has added an exercise row behind those of the first.
C15_Witness ==
    \E s \in Sessions :
        /\ run[s].pc = "loop" /\ run[s].base > 0
        /\ Len(Added(run[s])) > 0
        /\ attempts # <<>>
        /\ dash.query # <<>> /\ dash.listing # << {} >>

(***************************************************************************)
(* C16.                                                                    *)
(***************************************************************************)
\* C16: a run leaves a candidate page of its document out of the pages to
\* process only if a row of that page was stored under exactly the
\* document's reference when the run started; rows of another reference
\* never make a page be skipped.
C16_SkipOnlyExactReference ==
    \A s \in Sessions :
        LET r == run[s]
        IN  Started(r) =>
            \A p \in SeqToSet(r.pages) \ SeqToSet(r.topr) :
                HasRow(RowsAtStart(r), r.reference, p)
=============================================================================
